---------------------------- MODULE Spec2Model ----------------------------
(***************************************************************************)
(* torbox: command-line client of the torbox.app download service.         *)
(*                                                                         *)
(* Spec        the streaming download variant (src/unnamed/part_000): the  *)
(*             listing request, the download loop with its pre-flight      *)
(*             check, link resolution, probe GET, retry loop, streaming    *)
(*             loop and post-transfer digest comparison.                   *)
(* SpecHinted  the variant with a torrent hint and a file glob (second     *)
(*             program of src/main.go): listing, torrent lookup by         *)
(*             identifier then name, file selection, and the download loop *)
(*             around wget.                                                *)
(*                                                                         *)
(* Strings are sequences of one-character strings, file contents are       *)
(* sequences of bytes.  MD5 is idealised as a collision-free digest of one *)
(* byte (two hex characters) over the bounded contents.                    *)
(***************************************************************************)
EXTENDS Integers, Sequences, FiniteSets, TLC

VARIABLES
    ttl,              \* the decoded catalog: ttl.Data in the source
    torrentNameHint,  \* positional argument NAME of "download"
    disk,             \* local file system: path -> Absent or RegularFile(bytes)
    pc,               \* position of main
    pos,              \* index of the current (torrent, file) in catalog order
    i,                \* counter of the retry loop
    resp,             \* status of the response held in resp: "none", "ok", "bad"
    hash,             \* bytes fed to the running MD5 accumulator
    pre,              \* verdict of the pre-flight check of the current file
    outcome,          \* what the post-transfer comparison logged for the file
    resolves,         \* link-resolution requests sent for the current file
    answers,          \* statuses the current file's download URL has answered, in order
    slept,            \* seconds slept in the retry loop for the current file
    opened,           \* destination opened for writing for the current file
    err,              \* what Error() reported when the process exited, or "none"
    fetchedOk,        \* paths downloaded into an absent destination and logged "MD5 OK"
    run,              \* "first" or "second" invocation in the same directory
    argTorrentHint,   \* hinted variant: positional argument "torrent"
    argFileHint,      \* hinted variant: positional argument "file glob"
    id,               \* hinted variant: identifier of the torrent looked up
    found,            \* hinted variant: the lookup found a torrent
    torrentFilesToDownload,  \* hinted variant: the files selected for download
    isNoDownload,     \* dry-run variant: flag -D, --no-download
    isNulSep,         \* dry-run variant: flag -0, --null
    stdout,           \* dry-run variant: the command lines printed, in order
    executed,         \* dry-run variant: the files wget was executed for, in order
    size,             \* HumanReadableSize: the argument of the call, in base 1024
    rendered,         \* HumanReadableSize: the string returned, <<>> before the return
    hashpipe,         \* checksum subcommand: the pipe to the stdin of md5sum
    child,            \* checksum subcommand: "unstarted", "running" or "exited"
    delivered         \* checksum subcommand: the lines md5sum has read

vars == <<ttl, torrentNameHint, disk, pc, pos, i, resp, hash, pre, outcome,
          resolves, answers, slept, opened, err, fetchedOk, run,
          argTorrentHint, argFileHint, id, found, torrentFilesToDownload,
          isNoDownload, isNulSep, stdout, executed, size, rendered,
          hashpipe, child, delivered>>

\* the variables only the hinted variant (second program of src/main.go) uses
hintedVars == <<argTorrentHint, argFileHint, id, found, torrentFilesToDownload>>

\* the variables only the streaming variant (src/unnamed/part_000) uses
streamingVars == <<torrentNameHint, i, hash, slept, opened, fetchedOk, run>>

\* the variables only the dry-run variant (src/unnamed/part_001) uses
dryRunVars == <<isNoDownload, isNulSep, stdout, executed>>

\* the variables of HumanReadableSize
sizeVars == <<size, rendered>>

\* the variables only the checksum subcommand (first program of src/main.go) uses
checksumVars == <<hashpipe, child, delivered>>

\* the variables the two download variants above leave alone
otherVars == <<dryRunVars, sizeVars, checksumVars>>

\* the values of variables a program does not use
DryRunIdle == isNoDownload = FALSE /\ isNulSep = FALSE /\ stdout = <<>> /\ executed = <<>>
SizeIdle == size = <<0>> /\ rendered = <<>>
ChecksumIdle ==
    hashpipe = [buf |-> <<>>, closed |-> FALSE] /\ child = "unstarted" /\ delivered = <<>>

\* GET requests the current file's download URL has received and answered
gets == Len(answers)

-----------------------------------------------------------------------------
(* Bounds of the model *)

\* longest response body, in bytes
MaxLen == 2

(* Program constants *)

\* for i := 0; i < 10; i++
MaxAttempts == 10

\* a path of the local file system: no file, or a regular file and its bytes
Absent == [exists |-> FALSE, data |-> <<>>]
RegularFile(c) == [exists |-> TRUE, data |-> c]
Bytes == {0, 1}

RECURSIVE SeqsUpTo(_, _)
SeqsUpTo(S, n) ==
    IF n = 0 THEN {<<>>}
    ELSE LET shorter == SeqsUpTo(S, n - 1)
         IN  shorter \cup {Append(s, x) : s \in {t \in shorter : Len(t) = n - 1}, x \in S}

Contents == SeqsUpTo(Bytes, MaxLen)

-----------------------------------------------------------------------------
(* Strings *)

ToLowerChar(c) ==
    CASE c = "A" -> "a" [] c = "B" -> "b" [] c = "C" -> "c"
      [] c = "D" -> "d" [] c = "E" -> "e" [] c = "F" -> "f"
      [] OTHER -> c

ToUpperChar(c) ==
    CASE c = "a" -> "A" [] c = "b" -> "B" [] c = "c" -> "C"
      [] c = "d" -> "D" [] c = "e" -> "E" [] c = "f" -> "F"
      [] OTHER -> c

ToLower(s) == [k \in 1..Len(s) |-> ToLowerChar(s[k])]
ToUpper(s) == [k \in 1..Len(s) |-> ToUpperChar(s[k])]

HasPrefix(s, p) == Len(p) <= Len(s) /\ SubSeq(s, 1, Len(p)) = p
HasSuffix(s, p) == Len(p) <= Len(s) /\ SubSeq(s, Len(s) - Len(p) + 1, Len(s)) = p

\* strings.Index: 0-based index of the first occurrence of p in s, -1 if none
Index(s, p) ==
    LET hits == {k \in 0..(Len(s) - Len(p)) : SubSeq(s, k + 1, k + Len(p)) = p}
    IN  IF hits = {} THEN -1 ELSE CHOOSE k \in hits : \A m \in hits : k <= m

Contains(s, p) == Index(s, p) >= 0

\* strings.Split(s, "*")
RECURSIVE SplitStar(_)
SplitStar(s) ==
    LET k == Index(s, <<"*">>)
    IN  IF k < 0 THEN <<s>>
        ELSE <<SubSeq(s, 1, k)>> \o SplitStar(SubSeq(s, k + 2, Len(s)))

\* the loop of glob.Glob over the leading parts; subj is trimmed as it goes
RECURSIVE GlobParts(_, _, _, _, _)
GlobParts(parts, n, subj, leadingGlob, trailingGlob) ==
    IF n = Len(parts)
    THEN trailingGlob \/ HasSuffix(subj, parts[n])
    ELSE LET idx == Index(subj, parts[n])
         IN  IF n = 1 /\ ~leadingGlob /\ idx # 0 THEN FALSE
             ELSE IF n > 1 /\ idx < 0 THEN FALSE
             ELSE GlobParts(parts, n + 1,
                            SubSeq(subj, idx + Len(parts[n]) + 1, Len(subj)),
                            leadingGlob, trailingGlob)

\* glob.Glob(pattern, subj) of github.com/ryanuber/go-glob: "*" is the only
\* metacharacter
Glob(pattern, subj) ==
    IF pattern = <<>> THEN subj = pattern
    ELSE IF pattern = <<"*">> THEN TRUE
    ELSE LET parts == SplitStar(pattern)
         IN  IF Len(parts) = 1 THEN subj = pattern
             ELSE GlobParts(parts, 1, subj,
                            HasPrefix(pattern, <<"*">>), HasSuffix(pattern, <<"*">>))

-----------------------------------------------------------------------------
(* MD5 and its hexadecimal rendering *)

\* content as a number: bijective base-2 numeration, so distinct contents
\* get distinct numbers
RECURSIVE Enc(_)
Enc(c) == IF c = <<>> THEN 1 ELSE 2 * Enc(SubSeq(c, 1, Len(c) - 1)) + c[Len(c)]

\* md5.New(); Write...; Sum(nil): the digest of the bytes written, here one
\* byte wide and free of collisions for contents of up to 7 bytes
Md5Sum(c) == (171 + 37 * Enc(c)) % 256

HexDigit(n) ==
    CASE n = 0 -> "0" [] n = 1 -> "1" [] n = 2 -> "2" [] n = 3 -> "3"
      [] n = 4 -> "4" [] n = 5 -> "5" [] n = 6 -> "6" [] n = 7 -> "7"
      [] n = 8 -> "8" [] n = 9 -> "9" [] n = 10 -> "a" [] n = 11 -> "b"
      [] n = 12 -> "c" [] n = 13 -> "d" [] n = 14 -> "e" [] n = 15 -> "f"

\* fmt.Sprintf("%x", digest): two lowercase hex characters per byte
SprintfX(d) == <<HexDigit(d \div 16), HexDigit(d % 16)>>

\* strconv.Itoa for naturals
RECURSIVE Itoa(_)
Itoa(n) == IF n < 10 THEN <<HexDigit(n)>> ELSE Append(Itoa(n \div 10), HexDigit(n % 10))

-----------------------------------------------------------------------------
(* The catalog *)

\* TorboxTorrentFile.MD5 as the service may send it for a file of content c:
\* missing, lowercase hex, or the same digest in uppercase
Md5Forms(c) == {<<>>, SprintfX(Md5Sum(c)), ToUpper(SprintfX(Md5Sum(c)))}

TorrentFile(fid, name, c, md5) == [ID |-> fid, MD5 |-> md5, Name |-> name, Size |-> Len(c)]

Torrent(tid, name, files) == [ID |-> tid, Name |-> name, Files |-> files]

\* the bytes the remote service holds for the two files of the catalog
CanonX == <<1, 1>>
CanonY == <<0>>

\* two torrents of one file each; a File's Size is the length of the bytes
\* the service holds.  The MD5 of the first takes each of the forms, the MD5
\* of the second is the lowercase hex digest
Catalogs ==
    {<<Torrent(1, <<"a">>, <<TorrentFile(1, <<"x">>, CanonX, m1)>>),
       Torrent(2, <<"b">>, <<TorrentFile(1, <<"y">>, CanonY, SprintfX(Md5Sum(CanonY)))>>)>> :
        m1 \in Md5Forms(CanonX)}

Hints == {<<>>, <<"a">>, <<"y">>, <<"c">>}

Paths == {<<"x">>, <<"y">>}

\* for _, torrent := range ttl.Data { for _, torrentfile := range torrent.Files:
\* the (torrent, file) index pairs in the order the nested loops visit them
RECURSIVE FlatFrom(_, _, _)
FlatFrom(data, t, f) ==
    IF t > Len(data) THEN <<>>
    ELSE IF f > Len(data[t].Files) THEN FlatFrom(data, t + 1, 1)
    ELSE <<[t |-> t, f |-> f]>> \o FlatFrom(data, t, f + 1)

Flat == FlatFrom(ttl, 1, 1)

torrent == ttl[Flat[pos].t]
torrentfile == ttl[Flat[pos].t].Files[Flat[pos].f]

-----------------------------------------------------------------------------
(* The streaming download variant: main of src/unnamed/part_000 *)

\* the locals of one iteration of the download loop, as a new iteration
\* finds them
FreshLocals ==
    /\ i' = 0
    /\ resp' = "none"
    /\ hash' = <<>>
    /\ pre' = "none"
    /\ outcome' = "none"
    /\ resolves' = 0
    /\ answers' = <<>>
    /\ slept' = 0
    /\ opened' = FALSE

Init ==
    /\ ttl \in Catalogs
    /\ torrentNameHint \in Hints
    /\ disk = [p \in Paths |-> Absent]
    /\ pc = "list"
    /\ pos = 1
    /\ i = 0
    /\ resp = "none"
    /\ hash = <<>>
    /\ pre = "none"
    /\ outcome = "none"
    /\ resolves = 0
    /\ answers = <<>>
    /\ slept = 0
    /\ opened = FALSE
    /\ err = "none"
    /\ fetchedOk = {}
    /\ run = "first"
    /\ argTorrentHint = <<>>
    /\ argFileHint = <<>>
    /\ id = 0
    /\ found = FALSE
    /\ torrentFilesToDownload = <<>>
    /\ DryRunIdle
    /\ SizeIdle
    /\ ChecksumIdle

\* the values of the variables of the download variants in a program that
\* downloads nothing
DownloadIdle ==
    /\ ttl = <<>>
    /\ torrentNameHint = <<>>
    /\ disk = [p \in Paths |-> Absent]
    /\ pos = 1
    /\ i = 0
    /\ resp = "none"
    /\ hash = <<>>
    /\ pre = "none"
    /\ outcome = "none"
    /\ resolves = 0
    /\ answers = <<>>
    /\ slept = 0
    /\ opened = FALSE
    /\ err = "none"
    /\ fetchedOk = {}
    /\ run = "first"
    /\ argTorrentHint = <<>>
    /\ argFileHint = <<>>
    /\ id = 0
    /\ found = FALSE
    /\ torrentFilesToDownload = <<>>

\* Error(): log.Fatalf, the process exits
Fatal(what) ==
    /\ pc' = "aborted"
    /\ err' = what

\* the listing request: transport error, status, read and decode of the body
Listing ==
    /\ pc = "list"
    /\ \E r \in {"transport", "status", "read", "decode", "ok"} :
          IF r = "ok" THEN pc' = "loop" /\ err' = err ELSE Fatal(r)
    /\ UNCHANGED <<ttl, torrentNameHint, disk, pos, i, resp, hash, pre, outcome,
                   resolves, answers, slept, opened, fetchedOk, run>>
    /\ UNCHANGED hintedVars
    /\ UNCHANGED otherVars

\* the condition that admits a file to the body of the download loop
Selected(hint, t, tf) ==
    hint = <<>> \/ hint = t.Name \/ Glob(hint, tf.Name)

\* the head of the download loop
Select ==
    /\ pc = "loop"
    /\ IF pos > Len(Flat)
       THEN /\ pc' = "done"
            /\ UNCHANGED <<pos, i, resp, hash, pre, outcome, resolves, answers, slept, opened>>
       ELSE IF Selected(torrentNameHint, torrent, torrentfile)
       THEN /\ pc' = "preflight"
            /\ UNCHANGED <<pos, i, resp, hash, pre, outcome, resolves, answers, slept, opened>>
       ELSE /\ pc' = "loop"
            /\ pos' = pos + 1
            /\ UNCHANGED <<i, resp, hash, pre, outcome, resolves, answers, slept, opened>>
    /\ UNCHANGED <<ttl, torrentNameHint, disk, err, fetchedOk, run>>
    /\ UNCHANGED hintedVars
    /\ UNCHANGED otherVars

\* os.Stat(name): err == nil && stat.Size() == size
StatSizeIs(d, name, sz) == d[name].exists /\ Len(d[name].data) = sz

\* a comparison that folds the case of the expected checksum first
Md5Equal_FoldCase(content, md5) == SprintfX(Md5Sum(content)) = ToLower(md5)

\* the digest comparison both checks make
Md5Equal(content, md5) == SprintfX(Md5Sum(content)) = md5

\* a pre-flight check without the branch for a missing expected checksum
PreFlightVerdict_NoUnknown(d, tf) ==
    IF ~d[tf.Name].exists THEN "missing"
    ELSE IF ~StatSizeIs(d, tf.Name, tf.Size) THEN "sizediff"
    ELSE IF Md5Equal(d[tf.Name].data, tf.MD5) THEN "match"
    ELSE "mismatch"

\* the verdict of the pre-flight check of file tf on disk d
PreFlightVerdict(d, tf) ==
    IF ~d[tf.Name].exists THEN "missing"
    ELSE IF ~StatSizeIs(d, tf.Name, tf.Size) THEN "sizediff"
    ELSE IF tf.MD5 = <<>> THEN "unknown"
    ELSE IF Md5Equal(d[tf.Name].data, tf.MD5) THEN "match"
    ELSE "mismatch"

\* the pre-flight check: `continue` on "unknown" and "match", else fall through
PreFlight ==
    /\ pc = "preflight"
    /\ pre' = PreFlightVerdict(disk, torrentfile)
    /\ pc' = IF pre' \in {"unknown", "match"} THEN "next" ELSE "resolve"
    /\ UNCHANGED <<ttl, torrentNameHint, disk, pos, i, resp, hash, outcome,
                   resolves, answers, slept, opened, err, fetchedOk, run>>
    /\ UNCHANGED hintedVars
    /\ UNCHANGED otherVars

\* the requestdl request: transport error and non-200 are fatal
Resolve ==
    /\ pc = "resolve"
    /\ resolves' = resolves + 1
    /\ \E r \in {"transport", "status", "ok"} :
          IF r = "ok" THEN pc' = "probe" /\ err' = err ELSE Fatal(r)
    /\ UNCHANGED <<ttl, torrentNameHint, disk, pos, i, resp, hash, pre, outcome,
                   answers, slept, opened, fetchedOk, run>>
    /\ UNCHANGED hintedVars
    /\ UNCHANGED otherVars

\* the first GET of the download URL, before the directory is made: its
\* body is closed unread, a transport error or a non-200 is fatal
Probe ==
    /\ pc = "probe"
    /\ \/ Fatal("transport") /\ UNCHANGED answers
       \/ answers' = Append(answers, "bad") /\ Fatal("status")
       \/ answers' = Append(answers, "ok") /\ pc' = "mkdir" /\ err' = err
    /\ UNCHANGED <<ttl, torrentNameHint, disk, pos, i, resp, hash, pre, outcome,
                   resolves, slept, opened, fetchedOk, run>>
    /\ UNCHANGED hintedVars
    /\ UNCHANGED otherVars

\* os.MkdirAll(filepath.Dir(name))
MkdirAll ==
    /\ pc = "mkdir"
    /\ \E ok \in BOOLEAN : IF ok THEN pc' = "open" /\ err' = err ELSE Fatal("io")
    /\ UNCHANGED <<ttl, torrentNameHint, disk, pos, i, resp, hash, pre, outcome,
                   resolves, answers, slept, opened, fetchedOk, run>>
    /\ UNCHANGED hintedVars
    /\ UNCHANGED otherVars

\* the destination's content once opened with the flags of OpenFile
OpenedContent(old) == IF old.exists THEN old ELSE RegularFile(<<>>)

\* os.OpenFile(name, O_APPEND|O_CREATE|O_WRONLY)
OpenFile ==
    /\ pc = "open"
    /\ \E ok \in BOOLEAN :
          IF ok
          THEN /\ disk' = [disk EXCEPT ![torrentfile.Name] = OpenedContent(@)]
               /\ opened' = TRUE
               /\ pc' = "attempt"
               /\ err' = err
          ELSE /\ Fatal("io")
               /\ UNCHANGED <<disk, opened>>
    /\ UNCHANGED <<ttl, torrentNameHint, pos, i, resp, hash, pre, outcome,
                   resolves, answers, slept, fetchedOk, run>>
    /\ UNCHANGED hintedVars
    /\ UNCHANGED otherVars

\* a backoff shifted by one place: (2 << i) seconds
Backoff_Shifted(n) == 2 ^ (n + 1)

\* time.Sleep((1 << i) * time.Second)
Backoff(n) == 2 ^ n

\* where the retry loop goes after a non-200 answer to attempt n
AfterBadStatus(n) == IF n + 1 < MaxAttempts THEN "attempt" ELSE "stream"

\* one iteration of the retry loop
Attempt ==
    /\ pc = "attempt"
    /\ \/ /\ Fatal("transport")
          /\ UNCHANGED <<i, resp, answers, slept>>
       \/ /\ resp' = "ok"
          /\ answers' = Append(answers, "ok")
          /\ pc' = "stream"
          /\ UNCHANGED <<i, slept, err>>
       \/ /\ resp' = "bad"
          /\ answers' = Append(answers, "bad")
          /\ slept' = slept + Backoff(i)
          /\ i' = i + 1
          /\ pc' = AfterBadStatus(i)
          /\ err' = err
    /\ UNCHANGED <<ttl, torrentNameHint, disk, pos, hash, pre, outcome,
                   resolves, opened, fetchedOk, run>>
    /\ UNCHANGED hintedVars
    /\ UNCHANGED otherVars

\* out.Write(buffer[:n]) on a file opened for appending
WriteAppend(old, chunk) == RegularFile(old.data \o chunk)

\* one iteration of the streaming loop: resp.Body.Read returns a chunk, the
\* end of the body, or an error; the chunk is written and hashed
Stream ==
    /\ pc = "stream"
    /\ \/ \E b \in Bytes :
             /\ Len(hash) < MaxLen
             /\ disk' = [disk EXCEPT ![torrentfile.Name] = WriteAppend(@, <<b>>)]
             /\ hash' = Append(hash, b)
             /\ pc' = "stream"
             /\ err' = err
       \/ /\ pc' = "verify"
          /\ UNCHANGED <<disk, hash, err>>
       \/ /\ \E what \in {"transport", "io"} : Fatal(what)
          /\ UNCHANGED <<disk, hash>>
    /\ UNCHANGED <<ttl, torrentNameHint, pos, i, resp, pre, outcome,
                   resolves, answers, slept, opened, fetchedOk, run>>
    /\ UNCHANGED hintedVars
    /\ UNCHANGED otherVars

\* what the post-transfer comparison logs
PostVerdict(received, tf) == IF Md5Equal(received, tf.MD5) THEN "md5ok" ELSE "md5failed"

\* a mismatch reported with Error() instead of Warn()
AfterVerdict_FatalMismatch(verdict) == IF verdict = "md5failed" THEN "aborted" ELSE "next"

\* where main goes once the comparison is logged: Info and Warn return, and
\* the `continue` of the mismatch branch is the loop's end as well
AfterVerdict(verdict) == "next"

\* the post-transfer digest comparison; both branches reach the loop's end
Verify ==
    /\ pc = "verify"
    /\ outcome' = PostVerdict(hash, torrentfile)
    /\ pc' = AfterVerdict(outcome')
    /\ fetchedOk' = IF outcome' = "md5ok" /\ pre = "missing"
                    THEN fetchedOk \cup {torrentfile.Name}
                    ELSE fetchedOk
    /\ UNCHANGED <<ttl, torrentNameHint, disk, pos, i, resp, hash, pre,
                   resolves, answers, slept, opened, err, run>>
    /\ UNCHANGED hintedVars
    /\ UNCHANGED otherVars

\* `continue` or the end of the loop body: on to the next file
NextFile ==
    /\ pc = "next"
    /\ pos' = pos + 1
    /\ pc' = "loop"
    /\ FreshLocals
    /\ UNCHANGED <<ttl, torrentNameHint, disk, err, fetchedOk, run>>
    /\ UNCHANGED hintedVars
    /\ UNCHANGED otherVars

\* the program is invoked again, with the same arguments, in the directory
\* the previous invocation left
Invoke ==
    /\ pc \in {"done", "aborted"}
    /\ run = "first"
    /\ run' = "second"
    /\ pc' = "list"
    /\ pos' = 1
    /\ FreshLocals
    /\ err' = "none"
    /\ UNCHANGED <<ttl, torrentNameHint, disk, fetchedOk>>
    /\ UNCHANGED hintedVars
    /\ UNCHANGED otherVars

Next ==
    \/ Listing
    \/ Select
    \/ PreFlight
    \/ Resolve
    \/ Probe
    \/ MkdirAll
    \/ OpenFile
    \/ Attempt
    \/ Stream
    \/ Verify
    \/ NextFile
    \/ Invoke

Spec == Init /\ [][Next]_vars

-----------------------------------------------------------------------------
(* The variant with a torrent hint: second program of src/main.go *)

\* TorboxTorrentFile of this variant: it has ShortName and no Name
HintedFile(fid, short, c, md5) ==
    [ID |-> fid, MD5 |-> md5, ShortName |-> short, Size |-> Len(c)]

\* two torrents, the first of two files; the name of the first torrent may
\* contain the decimal identifier of the second
HintedCatalogs ==
    {<<Torrent(1, n1, <<HintedFile(1, <<"x">>, CanonX, m1),
                        HintedFile(2, <<"y">>, CanonY, SprintfX(Md5Sum(CanonY)))>>),
       Torrent(2, n2, <<HintedFile(1, <<"z">>, CanonY, SprintfX(Md5Sum(CanonY)))>>)>> :
        n1 \in {<<"a">>, <<"a", "2">>}, n2 \in {<<"b">>, <<"a", "b">>},
        m1 \in Md5Forms(CanonX)}

\* the argument is required, so it is not empty
TorrentHints == {<<"1">>, <<"2">>, <<"a">>, <<"b">>, <<"c">>}

FileHints == {<<>>, <<"x">>, <<"*">>}

HintedPaths == {<<"x">>, <<"y">>, <<"z">>}

DigitValue(c) ==
    CASE c = "0" -> 0 [] c = "1" -> 1 [] c = "2" -> 2 [] c = "3" -> 3 [] c = "4" -> 4
      [] c = "5" -> 5 [] c = "6" -> 6 [] c = "7" -> 7 [] c = "8" -> 8 [] c = "9" -> 9
      [] OTHER -> -1

RECURSIVE DecimalValue(_)
DecimalValue(s) ==
    IF s = <<>> THEN 0
    ELSE 10 * DecimalValue(SubSeq(s, 1, Len(s) - 1)) + DigitValue(s[Len(s)])

\* strconv.ParseInt(s, 10, 32) of an unsigned numeral within range: the
\* value and a nil error, or 0 and a syntax error
ParseInt(s) ==
    IF s # <<>> /\ \A k \in 1..Len(s) : DigitValue(s[k]) >= 0
    THEN [val |-> DecimalValue(s), err |-> FALSE]
    ELSE [val |-> 0, err |-> TRUE]

\* for _, torrent := range data { if torrent.ID == n { found = true; break } }
FoundByID(data, n) == \E t \in 1..Len(data) : data[t].ID = n

\* a name lookup that accepts only a name identical to the hint
FirstByName_Exact(data, hint) ==
    LET hits == {t \in 1..Len(data) : data[t].Name = hint}
    IN  IF hits = {} THEN 0 ELSE CHOOSE t \in hits : \A u \in hits : t <= u

\* the first torrent whose name contains the hint, 0 if none
FirstByName(data, hint) ==
    LET hits == {t \in 1..Len(data) : Contains(data[t].Name, hint)}
    IN  IF hits = {} THEN 0 ELSE CHOOSE t \in hits : \A u \in hits : t <= u

\* the lookup by identifier runs under `if err != nil`
LookupByIDRuns(parsed) == parsed.err

\* the torrent lookup: by identifier, and if that did not find one, by name
LookupTorrent(data, hint) ==
    LET parsed == ParseInt(hint)
        byID   == LookupByIDRuns(parsed) /\ FoundByID(data, parsed.val)
        t      == FirstByName(data, hint)
    IN  IF byID THEN [found |-> TRUE, id |-> parsed.val]
        ELSE IF t # 0 THEN [found |-> TRUE, id |-> data[t].ID]
        ELSE [found |-> FALSE, id |-> parsed.val]

RECURSIVE FilterGlob(_, _)
FilterGlob(files, pattern) ==
    IF files = <<>> THEN <<>>
    ELSE (IF Glob(pattern, Head(files).ShortName) THEN <<Head(files)>> ELSE <<>>)
            \o FilterGlob(Tail(files), pattern)

\* the files to download: those of the torrents with the identifier, kept
\* by the file glob when one is given
RECURSIVE FilesToDownload(_, _, _, _)
FilesToDownload(data, n, pattern, acc) ==
    IF data = <<>> THEN acc
    ELSE IF Head(data).ID # n THEN FilesToDownload(Tail(data), n, pattern, acc)
    ELSE IF pattern # <<>>
         THEN FilesToDownload(Tail(data), n, pattern, acc \o FilterGlob(Head(data).Files, pattern))
         ELSE FilesToDownload(Tail(data), n, pattern, Head(data).Files)

tf == torrentFilesToDownload[pos]

InitHinted ==
    /\ ttl \in HintedCatalogs
    /\ argTorrentHint \in TorrentHints
    /\ argFileHint \in FileHints
    /\ id = 0
    /\ found = FALSE
    /\ torrentFilesToDownload = <<>>
    /\ disk \in [HintedPaths -> {Absent, RegularFile(CanonX)}]
    /\ pc = "list"
    /\ pos = 1
    /\ resp = "none"
    /\ pre = "none"
    /\ outcome = "none"
    /\ resolves = 0
    /\ answers = <<>>
    /\ err = "none"
    /\ torrentNameHint = <<>>
    /\ i = 0
    /\ hash = <<>>
    /\ slept = 0
    /\ opened = FALSE
    /\ fetchedOk = {}
    /\ run = "first"
    /\ DryRunIdle
    /\ SizeIdle
    /\ ChecksumIdle

\* slog.Error(): the record is logged and main goes on
Logged(what) == err' = what

\* resp.StatusCode with resp == nil after a failed client.Do: the runtime
\* panics and the process ends
Panic ==
    /\ pc' = "panicked"
    /\ err' = "transport"

\* the listing request; a non-200, an unreadable or an undecodable body is
\* logged and leaves ttl without torrents
ListingHinted ==
    /\ pc = "list"
    /\ \/ Panic /\ UNCHANGED ttl
       \/ \E what \in {"status", "read", "decode"} :
             Logged(what) /\ ttl' = <<>> /\ pc' = "lookup"
       \/ pc' = "lookup" /\ UNCHANGED <<ttl, err>>
    /\ UNCHANGED <<disk, pos, resp, pre, outcome, resolves, answers>>
    /\ UNCHANGED hintedVars
    /\ UNCHANGED streamingVars
    /\ UNCHANGED otherVars

\* the torrent lookup and the exit when nothing matched
SelectTorrent ==
    /\ pc = "lookup"
    /\ LET r == LookupTorrent(ttl, argTorrentHint)
       IN  /\ found' = r.found
           /\ id' = r.id
           /\ IF r.found
              THEN pc' = "files" /\ err' = err
              ELSE pc' = "exited" /\ err' = "notfound"
    /\ UNCHANGED <<ttl, disk, pos, resp, pre, outcome, resolves, answers>>
    /\ UNCHANGED <<argTorrentHint, argFileHint, torrentFilesToDownload>>
    /\ UNCHANGED streamingVars
    /\ UNCHANGED otherVars

\* the selection of the files of the torrent
SelectFiles ==
    /\ pc = "files"
    /\ torrentFilesToDownload' = FilesToDownload(ttl, id, argFileHint, <<>>)
    /\ pc' = "loop"
    /\ UNCHANGED <<ttl, disk, pos, resp, pre, outcome, resolves, answers, err>>
    /\ UNCHANGED <<argTorrentHint, argFileHint, id, found>>
    /\ UNCHANGED streamingVars
    /\ UNCHANGED otherVars

\* the head of the download loop
LoopHinted ==
    /\ pc = "loop"
    /\ pc' = IF pos > Len(torrentFilesToDownload) THEN "done" ELSE "preflight"
    /\ UNCHANGED <<ttl, disk, pos, resp, pre, outcome, resolves, answers, err>>
    /\ UNCHANGED hintedVars
    /\ UNCHANGED streamingVars
    /\ UNCHANGED otherVars

\* the verdict of the pre-flight check of this variant: no size comparison
PreFlightVerdictHinted(d, f) ==
    IF ~d[f.ShortName].exists THEN "missing"
    ELSE IF f.MD5 = SprintfX(Md5Sum(d[f.ShortName].data)) THEN "match"
    ELSE "mismatch"

\* the pre-flight check: `continue` on a match, else fall through
PreFlightHinted ==
    /\ pc = "preflight"
    /\ pre' = PreFlightVerdictHinted(disk, tf)
    /\ pc' = IF pre' = "match" THEN "next" ELSE "resolve"
    /\ UNCHANGED <<ttl, disk, pos, resp, outcome, resolves, answers, err>>
    /\ UNCHANGED hintedVars
    /\ UNCHANGED streamingVars
    /\ UNCHANGED otherVars

\* the requestdl request: a non-200 is logged, and the body is decoded all
\* the same
ResolveHinted ==
    /\ pc = "resolve"
    /\ resolves' = resolves + 1
    /\ \/ Panic /\ UNCHANGED resp
       \/ Logged("status") /\ resp' = "bad" /\ pc' = "probe"
       \/ resp' = "ok" /\ pc' = "probe" /\ err' = err
    /\ UNCHANGED <<ttl, disk, pos, pre, outcome, answers>>
    /\ UNCHANGED hintedVars
    /\ UNCHANGED streamingVars
    /\ UNCHANGED otherVars

\* the GET of downloadRequest.Data; after a non-200 resolution the envelope
\* carries no URL and the request fails
ProbeHinted ==
    /\ pc = "probe"
    /\ IF resp = "bad"
       THEN Panic /\ UNCHANGED answers
       ELSE \/ Panic /\ UNCHANGED answers
            \/ Logged("status") /\ answers' = Append(answers, "bad") /\ pc' = "wget"
            \/ answers' = Append(answers, "ok") /\ pc' = "wget" /\ err' = err
    /\ UNCHANGED <<ttl, disk, pos, resp, pre, outcome, resolves>>
    /\ UNCHANGED hintedVars
    /\ UNCHANGED streamingVars
    /\ UNCHANGED otherVars

\* wget --output-document: the command does not run, or it truncates the
\* document and writes what it received; a failure is logged
Wget ==
    /\ pc = "wget"
    /\ \/ Logged("exec") /\ UNCHANGED disk
       \/ \E c \in Contents :
             /\ disk' = [disk EXCEPT ![tf.ShortName] = RegularFile(c)]
             /\ \/ Logged("exec")
                \/ err' = err
    /\ pc' = "verify"
    /\ UNCHANGED <<ttl, pos, resp, pre, outcome, resolves, answers>>
    /\ UNCHANGED hintedVars
    /\ UNCHANGED streamingVars
    /\ UNCHANGED otherVars

\* what the verification after wget logs
PostVerdictHinted(d, f) ==
    IF ~d[f.ShortName].exists THEN "none"
    ELSE IF f.MD5 # SprintfX(Md5Sum(d[f.ShortName].data)) THEN "md5failed"
    ELSE "md5ok"

\* the verification after wget: a mismatch is logged with slog.Error
VerifyHinted ==
    /\ pc = "verify"
    /\ outcome' = PostVerdictHinted(disk, tf)
    /\ IF outcome' = "md5failed" THEN Logged("mismatch") ELSE err' = err
    /\ pc' = "next"
    /\ UNCHANGED <<ttl, disk, pos, resp, pre, resolves, answers>>
    /\ UNCHANGED hintedVars
    /\ UNCHANGED streamingVars
    /\ UNCHANGED otherVars

\* `continue` or the end of the loop body
NextHinted ==
    /\ pc = "next"
    /\ pos' = pos + 1
    /\ pc' = "loop"
    /\ resp' = "none"
    /\ pre' = "none"
    /\ outcome' = "none"
    /\ resolves' = 0
    /\ answers' = <<>>
    /\ UNCHANGED <<ttl, disk, err>>
    /\ UNCHANGED hintedVars
    /\ UNCHANGED streamingVars
    /\ UNCHANGED otherVars

NextHintedProgram ==
    \/ ListingHinted
    \/ SelectTorrent
    \/ SelectFiles
    \/ LoopHinted
    \/ PreFlightHinted
    \/ ResolveHinted
    \/ ProbeHinted
    \/ Wget
    \/ VerifyHinted
    \/ NextHinted

SpecHinted == InitHinted /\ [][NextHintedProgram]_vars

-----------------------------------------------------------------------------
(* The dry-run variant: download subcommand of src/unnamed/part_001 *)

\* strings.ContainsAny(s, chars)
ContainsAny(s, chars) == \E k \in 1..Len(s) : s[k] \in chars

\* the quoting Marshell applies to one argument
MarshellArg(arg) ==
    IF Contains(arg, <<"'">>) THEN <<"\"">> \o arg \o <<"\"">>
    ELSE IF ContainsAny(arg, {" ", "?", "[", "]", "#", "$", "\""})
    THEN <<"'">> \o arg \o <<"'">>
    ELSE arg

\* strings.Join(args, " ")
RECURSIVE JoinSpace(_)
JoinSpace(args) ==
    IF args = <<>> THEN <<>>
    ELSE IF Len(args) = 1 THEN args[1]
    ELSE args[1] \o <<" ">> \o JoinSpace(Tail(args))

Marshell(args) == JoinSpace([k \in 1..Len(args) |-> MarshellArg(args[k])])

\* the URL the service returned in downloadRequest.Data for a file
DownloadURL(name) == <<"u", "?">> \o name

\* exec.Command("wget", "--continue", "--directory-prefix", dir,
\* "--output-document", name, url), the option words abbreviated to their
\* first letters; filepath.Dir of a name without a slash is "."
WgetArgs(name) ==
    <<<<"w", "g", "e", "t">>, <<"-", "-", "c">>, <<"-", "-", "d">>, <<".">>,
      <<"-", "-", "o">>, name, DownloadURL(name)>>

InitDryRun ==
    /\ ttl \in Catalogs
    /\ isNoDownload \in BOOLEAN
    /\ isNulSep \in BOOLEAN
    /\ stdout = <<>>
    /\ executed = <<>>
    /\ disk = [p \in Paths |-> Absent]
    /\ pc = "flags"
    /\ pos = 1
    /\ resp = "none"
    /\ resolves = 0
    /\ answers = <<>>
    /\ err = "none"
    /\ pre = "none"
    /\ outcome = "none"
    /\ torrentNameHint = <<>>
    /\ i = 0
    /\ hash = <<>>
    /\ slept = 0
    /\ opened = FALSE
    /\ fetchedOk = {}
    /\ run = "first"
    /\ argTorrentHint = <<>>
    /\ argFileHint = <<>>
    /\ id = 0
    /\ found = FALSE
    /\ torrentFilesToDownload = <<>>
    /\ SizeIdle
    /\ ChecksumIdle

\* what no action of the dry-run variant changes
dryRunFrame ==
    <<ttl, pre, outcome, streamingVars, hintedVars, sizeVars, checksumVars>>

\* -0,--null implies -D,--no-download
ImplyNoDownload ==
    /\ pc = "flags"
    /\ isNoDownload' = (isNulSep \/ isNoDownload)
    /\ pc' = "decode"
    /\ UNCHANGED <<isNulSep, stdout, executed, disk, pos, resp, resolves, answers, err>>
    /\ UNCHANGED dryRunFrame

\* the catalog is decoded from standard input
DecodeStdin ==
    /\ pc = "decode"
    /\ \/ Fatal("decode")
       \/ pc' = "loop" /\ err' = err
    /\ UNCHANGED <<dryRunVars, disk, pos, resp, resolves, answers>>
    /\ UNCHANGED dryRunFrame

\* the head of the nested loops over the files of the catalog
LoopDryRun ==
    /\ pc = "loop"
    /\ pc' = IF pos > Len(Flat) THEN "done" ELSE "resolve"
    /\ UNCHANGED <<dryRunVars, disk, pos, resp, resolves, answers, err>>
    /\ UNCHANGED dryRunFrame

\* the requestdl request of the file
ResolveDryRun ==
    /\ pc = "resolve"
    /\ resolves' = resolves + 1
    /\ \/ Fatal("transport") /\ UNCHANGED resp
       \/ Fatal("status") /\ resp' = "bad"
       \/ resp' = "ok" /\ pc' = "probe" /\ err' = err
    /\ UNCHANGED <<dryRunVars, disk, pos, answers>>
    /\ UNCHANGED dryRunFrame

\* the GET of downloadRequest.Data, whose body is closed unread
ProbeDryRun ==
    /\ pc = "probe"
    /\ \/ Fatal("transport") /\ UNCHANGED answers
       \/ Fatal("status") /\ answers' = Append(answers, "bad")
       \/ answers' = Append(answers, "ok") /\ pc' = "mkdir" /\ err' = err
    /\ UNCHANGED <<dryRunVars, disk, pos, resp, resolves>>
    /\ UNCHANGED dryRunFrame

\* os.MkdirAll(filepath.Dir(torrentfile.Name))
MkdirAllDryRun ==
    /\ pc = "mkdir"
    /\ \/ Fatal("mkdir")
       \/ pc' = "command" /\ err' = err
    /\ UNCHANGED <<dryRunVars, disk, pos, resp, resolves, answers>>
    /\ UNCHANGED dryRunFrame

\* the locals of the next iteration
NextIteration ==
    /\ pos' = pos + 1
    /\ resp' = "none"
    /\ resolves' = 0
    /\ answers' = <<>>

\* the wget command of the file: printed when isNoDownload, else executed
Command ==
    /\ pc = "command"
    /\ IF isNoDownload
       THEN /\ stdout' = Append(stdout, [line |-> Marshell(WgetArgs(torrentfile.Name)),
                                         end  |-> IF isNulSep THEN "NUL" ELSE "LF"])
            /\ pc' = "loop"
            /\ NextIteration
            /\ UNCHANGED <<executed, disk, err>>
       ELSE /\ executed' = Append(executed, torrentfile.Name)
            /\ \E c \in Contents :
                  disk' = [disk EXCEPT ![torrentfile.Name] = RegularFile(c)]
            /\ \/ Fatal("exec") /\ UNCHANGED <<pos, resp, resolves, answers>>
               \/ pc' = "loop" /\ err' = err /\ NextIteration
            /\ UNCHANGED stdout
    /\ UNCHANGED <<isNoDownload, isNulSep>>
    /\ UNCHANGED dryRunFrame

NextDryRun ==
    \/ ImplyNoDownload
    \/ DecodeStdin
    \/ LoopDryRun
    \/ ResolveDryRun
    \/ ProbeDryRun
    \/ MkdirAllDryRun
    \/ Command

SpecDryRun == InitDryRun /\ [][NextDryRun]_vars

-----------------------------------------------------------------------------
(* HumanReadableSize of src/unnamed/part_000 *)

\* An int64 size is held in base 1024, most significant digit first and
\* without leading zeros: 1536 is <<1, 512>>, 1024^4 is <<1, 0, 0, 0, 0>>.
RECURSIVE Base1024(_)
Base1024(n) == IF n < 1024 THEN <<n>> ELSE Append(Base1024(n \div 1024), n % 1024)

\* size < 1024
Below1024(sz) == Len(sz) = 1

\* size /= 1024
Div1024(sz) == IF Len(sz) = 1 THEN <<0>> ELSE SubSeq(sz, 1, Len(sz) - 1)

\* left padding with spaces to a width
RECURSIVE PadLeft(_, _)
PadLeft(s, width) == IF Len(s) >= width THEN s ELSE PadLeft(<<" ">> \o s, width)

\* fmt.Sprintf("%3.d", v): width 3 and, by the dot with no digits, precision
\* 0; fmt prints only the padding for the value 0 with precision 0
Sprintf3d(v) == IF v = 0 THEN PadLeft(<<>>, 3) ELSE PadLeft(Itoa(v), 3)

Units == <<<<"B">>, <<"K", "i", "B">>, <<"M", "i", "B">>, <<"G", "i", "B">>, <<"T", "i", "B">>>>

Sentinel == <<"?", "i", "B">>

\* the loop over the units, from the unit of index k on
RECURSIVE HumanReadableSizeFrom(_, _)
HumanReadableSizeFrom(sz, k) ==
    IF k > Len(Units) THEN Sentinel
    ELSE IF Below1024(sz) THEN Sprintf3d(sz[1]) \o <<" ">> \o Units[k]
    ELSE HumanReadableSizeFrom(Div1024(sz), k + 1)

HumanReadableSize(sz) == HumanReadableSizeFrom(sz, 1)

\* the digits and the number of digits of the sizes the calls are made with
DigitSamples == {0, 1, 7, 512, 1023}
MaxDigits == 6

\* the non-negative sizes: no leading zero, and below 2^63 = 8 * 1024^6
Sizes ==
    {s \in SeqsUpTo(DigitSamples, MaxDigits) :
        /\ s # <<>>
        /\ Len(s) > 1 => s[1] # 0
        /\ Len(s) > 6 => (Len(s) = 7 /\ s[1] < 8)}

InitSize ==
    /\ size \in Sizes
    /\ rendered = <<>>
    /\ pc = "call"
    /\ DownloadIdle
    /\ DryRunIdle
    /\ ChecksumIdle

\* a call HumanReadableSize(size) and its return
CallHumanReadableSize ==
    /\ pc = "call"
    /\ rendered' = HumanReadableSize(size)
    /\ pc' = "returned"
    /\ UNCHANGED <<size, dryRunVars, checksumVars, hintedVars, streamingVars>>
    /\ UNCHANGED <<ttl, disk, pos, resp, pre, outcome, resolves, answers, err>>

NextSize == CallHumanReadableSize

SpecSize == InitSize /\ [][NextSize]_vars

-----------------------------------------------------------------------------
(* The checksum subcommand: first program of src/main.go *)

\* the files of a catalog and the bytes the pipe of the operating system
\* holds before a write to it waits for a reader
MaxFiles == 3
PipeCapacity == 12

FileName(k) == <<"f">> \o Itoa(k)

\* the catalogs on standard input: one torrent of up to MaxFiles files, each
\* with its MD5 or with none
ChecksumCatalogs ==
    UNION {{<<Torrent(1, <<"a">>,
                      [k \in 1..n |-> TorrentFile(k, FileName(k), CanonX, m[k])])>> :
               m \in [1..n -> {<<>>, SprintfX(Md5Sum(CanonX))}]} :
           n \in 0..MaxFiles}

\* fmt.Sprintf("%s  %s\n", torrentfile.MD5, torrentfile.Name)
ChecksumLine(f) == f.MD5 \o <<" ", " ">> \o f.Name \o <<"\n">>

\* the lines of the files of the catalog from position k on, in order
RECURSIVE LinesFrom(_)
LinesFrom(k) ==
    IF k > Len(Flat) THEN <<>>
    ELSE ChecksumLine(ttl[Flat[k].t].Files[Flat[k].f]) \o LinesFrom(k + 1)

InitChecksum ==
    /\ ttl \in ChecksumCatalogs
    /\ hashpipe = [buf |-> <<>>, closed |-> FALSE]
    /\ child = "unstarted"
    /\ delivered = <<>>
    /\ pc = "decode"
    /\ pos = 1
    /\ err = "none"
    /\ torrentNameHint = <<>>
    /\ disk = [p \in Paths |-> Absent]
    /\ i = 0
    /\ resp = "none"
    /\ hash = <<>>
    /\ pre = "none"
    /\ outcome = "none"
    /\ resolves = 0
    /\ answers = <<>>
    /\ slept = 0
    /\ opened = FALSE
    /\ fetchedOk = {}
    /\ run = "first"
    /\ argTorrentHint = <<>>
    /\ argFileHint = <<>>
    /\ id = 0
    /\ found = FALSE
    /\ torrentFilesToDownload = <<>>
    /\ DryRunIdle
    /\ SizeIdle

\* what no action of the checksum subcommand changes
checksumFrame ==
    <<ttl, disk, resp, pre, outcome, resolves, answers, streamingVars, hintedVars,
      dryRunVars, sizeVars>>

\* the catalog is decoded from standard input
DecodeChecksum ==
    /\ pc = "decode"
    /\ \/ Fatal("decode")
       \/ pc' = "pipe" /\ err' = err
    /\ UNCHANGED <<checksumVars, pos>>
    /\ UNCHANGED checksumFrame

\* cmd.StdinPipe(): an empty pipe; md5sum is not started
StdinPipe ==
    /\ pc = "pipe"
    /\ \/ Fatal("pipe")
       \/ pc' = "write" /\ err' = err
    /\ UNCHANGED <<checksumVars, pos>>
    /\ UNCHANGED checksumFrame

\* the bytes of a write the pipe still has room for
Room(buf) == PipeCapacity - Len(buf)

\* one iteration of the loops: hashpipe.Write of the line of the file.  The
\* write returns when the pipe took the whole line; when the pipe is full
\* it waits for a reader to take bytes out
WriteLine ==
    /\ pc = "write"
    /\ IF pos > Len(Flat)
       THEN pc' = "close" /\ UNCHANGED <<hashpipe, pos>>
       ELSE LET line == ChecksumLine(torrentfile)
            IN  IF Len(line) <= Room(hashpipe.buf)
                THEN /\ hashpipe' = [hashpipe EXCEPT !.buf = @ \o line]
                     /\ pos' = pos + 1
                     /\ pc' = "write"
                ELSE /\ hashpipe' = [hashpipe EXCEPT
                                        !.buf = @ \o SubSeq(line, 1, Room(hashpipe.buf))]
                     /\ pc' = "writing"
                     /\ UNCHANGED pos
    /\ UNCHANGED <<child, delivered, err>>
    /\ UNCHANGED checksumFrame

\* hashpipe.Close()
ClosePipe ==
    /\ pc = "close"
    /\ hashpipe' = [hashpipe EXCEPT !.closed = TRUE]
    /\ pc' = "run"
    /\ UNCHANGED <<child, delivered, pos, err>>
    /\ UNCHANGED checksumFrame

\* cmd.Run(): md5sum is started with the read end of the pipe as its
\* standard input, and main waits for it
Run ==
    /\ pc = "run"
    /\ \/ Fatal("exec") /\ UNCHANGED child
       \/ child' = "running" /\ pc' = "wait" /\ err' = err
    /\ UNCHANGED <<hashpipe, delivered, pos>>
    /\ UNCHANGED checksumFrame

\* md5sum reads what the pipe holds
ChildReads ==
    /\ child = "running"
    /\ hashpipe.buf # <<>>
    /\ delivered' = delivered \o hashpipe.buf
    /\ hashpipe' = [hashpipe EXCEPT !.buf = <<>>]
    /\ UNCHANGED <<child, pc, pos, err>>
    /\ UNCHANGED checksumFrame

\* md5sum reads the end of the file from the empty, closed pipe and exits
ChildExits ==
    /\ child = "running"
    /\ hashpipe.buf = <<>>
    /\ hashpipe.closed
    /\ child' = "exited"
    /\ UNCHANGED <<hashpipe, delivered, pc, pos, err>>
    /\ UNCHANGED checksumFrame

\* cmd.Run() returns: with the exit status of md5sum as its error
Return ==
    /\ pc = "wait"
    /\ child = "exited"
    /\ \/ Fatal("exec")
       \/ pc' = "done" /\ err' = err
    /\ UNCHANGED <<checksumVars, pos>>
    /\ UNCHANGED checksumFrame

NextChecksum ==
    \/ DecodeChecksum
    \/ StdinPipe
    \/ WriteLine
    \/ ClosePipe
    \/ Run
    \/ ChildReads
    \/ ChildExits
    \/ Return

SpecChecksum == InitChecksum /\ [][NextChecksum]_vars

-----------------------------------------------------------------------------
(* Properties of the streaming download variant *)

IsPrefix(a, b) == Len(a) <= Len(b) /\ a = SubSeq(b, 1, Len(a))

\* main is inside the body of the download loop, at the current file
InLoopBody ==
    pc \in {"preflight", "resolve", "probe", "mkdir", "open", "attempt",
            "stream", "verify", "next"}

\* the bytes now at the destination of the current file
DestData == disk[torrentfile.Name].data

\* a download URL that answers non-200 twice and then 200
RetryScript == <<"bad", "bad", "ok">>

\* C1: a download URL that answers non-200 to the first 2 GET requests it
\* receives and 200 to the 3rd is not given up on for its status, and once
\* it has answered the 3rd there have been exactly 3 GET requests, 2^0 + 2^1
\* = 3 seconds of backoff, and the 200 response is the one being streamed.
C1_RetryLaw ==
    /\ (answers # <<>> /\ IsPrefix(answers, RetryScript))
          => ~(pc = "aborted" /\ err = "status")
    /\ (InLoopBody /\ answers = RetryScript)
          => (gets = 3 /\ slept = 3 /\ resp = "ok")

\* C2: when all 10 attempts of the transfer GET were answered non-200 the
\* invocation is aborted: nothing of a non-200 body is written or hashed
\* and no checksum outcome is reported for the file.
C2_Exhaustion ==
    (i = MaxAttempts)
       => (pc = "aborted" /\ err = "status" /\ hash = <<>> /\ outcome = "none")

\* C3: in the retry loop (0 <= i < 10) a transport error aborts at once,
\* with no further request and no wait; a 200 leaves the loop with no wait;
\* only a non-200 is retried, after a wait of exactly 2^i seconds; and an
\* aborted invocation sends nothing more.
C3_RetryAsymmetry ==
    /\ [](pc = "attempt" => (i >= 0 /\ i < 10))
    /\ [][pc = "attempt" =>
            \/ /\ pc' = "aborted" /\ err' = "transport"
               /\ answers' = answers /\ slept' = slept /\ i' = i
            \/ /\ pc' = "stream" /\ resp' = "ok"
               /\ answers' = Append(answers, "ok") /\ slept' = slept /\ i' = i
            \/ /\ pc' \in {"attempt", "stream"} /\ resp' = "bad"
               /\ answers' = Append(answers, "bad")
               /\ slept' = slept + 2 ^ i /\ i' = i + 1]_vars
    /\ [][pc = "aborted" => run' # run]_vars

\* C3 witness: a non-200 on attempts 0 and 1 was retried after 1 + 2
\* seconds, and a transport error on attempt 2 aborted the invocation.
C3_Witness ==
    pc = "aborted" /\ err = "transport" /\ opened /\ i = 2 /\ slept = 3
       /\ answers = <<"ok", "bad", "bad">>

\* the destination of file f exists with the expected size and its digest
\* is the expected checksum, or no checksum is expected
DestCorrect(d, f) ==
    /\ d[f.Name].exists
    /\ Len(d[f.Name].data) = f.Size
    /\ (f.MD5 = <<>> \/ SprintfX(Md5Sum(d[f.Name].data)) = f.MD5)

C5_VerifiedContent ==
    (pc = "next" /\ outcome = "md5ok")
       => /\ DestData = hash
          /\ SprintfX(Md5Sum(DestData)) = torrentfile.MD5
          /\ Len(DestData) = torrentfile.Size

\* C6: for a file with an empty expected checksum whose on-disk size is the
\* expected size, neither the pre-flight check nor the post-transfer check
\* reports a checksum mismatch.
C6_EmptyChecksumUnknown ==
    (/\ pc = "next"
     /\ torrentfile.MD5 = <<>>
     /\ StatSizeIs(disk, torrentfile.Name, torrentfile.Size))
       => (pre # "mismatch" /\ outcome # "md5failed")

\* the pre-flight check has just compared digests: the destination had the
\* expected size, a checksum was expected, and the disk is as it was
PreFlightCompared ==
    /\ pc \in {"resolve", "next"}
    /\ resolves = 0
    /\ torrentfile.MD5 # <<>>
    /\ StatSizeIs(disk, torrentfile.Name, torrentfile.Size)

C8_MismatchContinues ==
    /\ [](outcome = "md5failed" => pc \in {"next"})
    /\ [][pc = "verify" => (pc' = "next" /\ pos' = pos /\ disk' = disk /\ err' = err)]_vars
    /\ [][pc = "next" => (/\ pc' = "loop" /\ pos' = pos + 1 /\ disk' = disk
                          /\ err' = err /\ outcome' = "none" /\ pre' = "none"
                          /\ i' = 0 /\ resp' = "none" /\ hash' = <<>>
                          /\ resolves' = 0 /\ answers' = <<>> /\ slept' = 0
                          /\ ~opened')]_vars
    /\ [][run' = run => pos' \in {pos, pos + 1}]_vars

\* C8 witness: in one invocation the first file was downloaded with a
\* checksum mismatch and the second file has been downloaded and verified.
C8_Witness ==
    /\ run = "first" /\ pc = "next" /\ pos = 2 /\ outcome = "md5ok"
    /\ torrentNameHint = <<>>
    /\ disk[<<"x">>].exists
    /\ ttl[1].Files[1].MD5 # <<>>
    /\ SprintfX(Md5Sum(disk[<<"x">>].data)) # ToLower(ttl[1].Files[1].MD5)

\* the Job matches the hint: by identifier, by name, or by glob on the name
JobMatches(hint, t) == hint = Itoa(t.ID) \/ hint = t.Name \/ Glob(hint, t.Name)

\* C10: when a hint is given, every file that is checked, resolved or
\* downloaded belongs to a Job that matches the hint.
C10_SelectorScope ==
    (InLoopBody /\ torrentNameHint # <<>>) => JobMatches(torrentNameHint, torrent)

\* no Job of the catalog matches the hint that was given
NoJobMatches ==
    /\ torrentNameHint # <<>>
    /\ \A t \in 1..Len(ttl) : ~JobMatches(torrentNameHint, ttl[t])

\* C12: when a hint is given and no Job of the catalog matches it, the
\* download operation never finishes silently with success: once the catalog
\* was listed, the invocation ends with a not-found error.
C12_NotFoundFails ==
    (NoJobMatches /\ pc \in {"done", "aborted"} /\ err \notin {"transport", "status", "read", "decode"})
       => (pc = "aborted" /\ err = "notfound")

-----------------------------------------------------------------------------
(* Properties of the variant with a torrent hint *)

\* the torrent lookup of the hinted variant is over
LookedUp ==
    pc \in {"files", "loop", "preflight", "resolve", "probe", "wget", "verify",
            "next", "done", "exited"}

\* C9: whenever the hint is the decimal representation of the identifier of
\* a Job of the catalog, the lookup finds a Job and it is that one, whatever
\* the names of the other Jobs.
C9_IdentifierPriority ==
    (LookedUp /\ \E t \in 1..Len(ttl) : Itoa(ttl[t].ID) = argTorrentHint)
       => (found /\ Itoa(id) = argTorrentHint)

\* sub occurs in s at some offset
OccursIn(sub, s) ==
    \E k \in 0..(Len(s) - Len(sub)) : SubSeq(s, k + 1, k + Len(sub)) = sub

\* the Job the lookup selected
SelectedJobs == {t \in 1..Len(ttl) : ttl[t].ID = id}

\* the lookup selected a Job because of its name: the identifier loop ran
\* only for a hint that is no number, with the identifier 0
SelectedByName ==
    /\ LookedUp
    /\ found
    /\ ~(ParseInt(argTorrentHint).err /\ FoundByID(ttl, 0))

MovieMkv == <<"m", "o", "v", "i", "e", ".", "m", "k", "v">>
MovieMp4 == <<"m", "o", "v", "i", "e", ".", "m", "p", "4">>
StarMkv == <<"*", ".", "m", "k", "v">>

\* C11 as stated: a hint without a glob metacharacter selects a Job by name
\* only if the name of the Job is identical to the hint, and '*.mkv' matches
\* 'movie.mkv' and not 'movie.mp4'.
C11_ExactNameOnly ==
    /\ SelectedByName => \A t \in SelectedJobs : ttl[t].Name = argTorrentHint
    /\ Glob(StarMkv, MovieMkv)
    /\ ~Glob(StarMkv, MovieMp4)

\* C11 amended: the lookup by name selects the first Job of the catalog
\* whose name contains the hint as a substring (an identical name included),
\* and finds nothing only when no name contains the hint; '*.mkv' matches
\* 'movie.mkv' and not 'movie.mp4'.
C11_FirstNameContaining ==
    /\ SelectedByName =>
          \E t \in SelectedJobs :
             /\ OccursIn(argTorrentHint, ttl[t].Name)
             /\ \A u \in 1..(t - 1) : ~OccursIn(argTorrentHint, ttl[u].Name)
    /\ (LookedUp /\ ~found) =>
          \A t \in 1..Len(ttl) : ~OccursIn(argTorrentHint, ttl[t].Name)
    /\ Glob(StarMkv, MovieMkv)
    /\ ~Glob(StarMkv, MovieMp4)

\* C11 witness: the lookup selected a Job whose name contains the hint as a
\* proper substring
C11_Witness ==
    /\ SelectedByName
    /\ \E t \in SelectedJobs :
          OccursIn(argTorrentHint, ttl[t].Name) /\ ttl[t].Name # argTorrentHint

\* main is past the listing request, whose answer was a non-success status
PastFailedListing == pc = "lookup" /\ err = "status"

\* main is past a link-resolution request whose answer was a non-success status
PastFailedResolution ==
    resp = "bad" /\ pc \in {"probe", "wget", "verify", "next", "loop", "done"}

\* C14: when the listing request or a link-resolution request returns a
\* non-success status the process terminates at that point: main is never
\* at a later statement with that answer behind it.
C14_FailFast == ~PastFailedListing /\ ~PastFailedResolution

-----------------------------------------------------------------------------
(* Properties of the dry-run variant *)

\* the flags are settled and ask for no download
DryRunMode == pc # "flags" /\ isNoDownload

\* C13: in dry-run mode no GET reaches the resolved download URL of a file,
\* wget is never executed, and when main returns one command line per file
\* of the catalog was printed, in catalog order, NUL-terminated under --null.
C13_DryRunOnlyResolves ==
    DryRunMode =>
       /\ answers = <<>>
       /\ executed = <<>>
       /\ pc = "done" =>
             /\ Len(stdout) = Len(Flat)
             /\ \A k \in 1..Len(stdout) :
                   /\ stdout[k].line = Marshell(WgetArgs(ttl[Flat[k].t].Files[Flat[k].f].Name))
                   /\ stdout[k].end = IF isNulSep THEN "NUL" ELSE "LF"

-----------------------------------------------------------------------------
(* Properties of HumanReadableSize *)

\* the rendering of a size: the value left after the divisions, which is the
\* leading digit in base 1024, as a decimal integer right-aligned in 3
\* characters, a space and the unit reached; the sentinel from 1024^5 on
ClaimedRendering(s) ==
    IF Len(s) > Len(Units) THEN Sentinel
    ELSE PadLeft(Itoa(s[1]), 3) \o <<" ">> \o Units[Len(s)]

\* C15: HumanReadableSize renders every size s >= 0 as the value left after
\* the integer divisions by 1024, a decimal integer right-aligned in 3
\* characters, followed by a space and the unit reached, and as '?iB' from
\* 1024^5 on; 0 renders as '  0 B', 1536 as '  1 KiB', 1024^4 as '  1 TiB'.
C15_SizeFormatting ==
    pc = "returned" =>
       /\ rendered = ClaimedRendering(size)
       /\ size = Base1024(0) => rendered = <<" ", " ", "0", " ", "B">>
       /\ size = Base1024(1536) => rendered = <<" ", " ", "1", " ", "K", "i", "B">>
       /\ size = <<1, 0, 0, 0, 0>> => rendered = <<" ", " ", "1", " ", "T", "i", "B">>

-----------------------------------------------------------------------------
(* Properties of the checksum subcommand *)

\* hashpipe.Write waits for room in the pipe while nothing reads the pipe
\* and nothing will: md5sum is started only after the loops
WriteBlockedForever == pc = "writing" /\ child = "unstarted"

\* C16: for every catalog, writing the lines into the pipe never blocks
\* forever, and when the program has run md5sum to its end every line of the
\* catalog was delivered to it, in order.
C16_PipeNeverBlocks ==
    /\ ~WriteBlockedForever
    /\ (pc = "done" => delivered = LinesFrom(1))

=============================================================================
